---- MODULE Spec2Model ----
(***************************************************************************)
(* Model of package sql2csv (src/sql2csv.go): a Converter built by         *)
(* NewConverter around a *sql.Rows cursor, configured through its public   *)
(* fields and SetRowPostProcessor, and consumed by Write or WriteFile.     *)
(*                                                                         *)
(* The collaborators are modelled by their contracts:                      *)
(*  - *sql.Rows: ColumnTypes, Next, Scan and Err; which rows it yields and *)
(*    which of its calls fail are choices of the environment;              *)
(*  - encoding/csv.Writer: Write rejects an invalid Comma and otherwise    *)
(*    appends the record to a bufio buffer, which is written to the        *)
(*    destination when the buffer fills (a choice here, since byte sizes   *)
(*    are not modelled) or when Flush is called;                           *)
(*  - the destination io.Writer may fail a write: inside csvWriter.Write   *)
(*    the error is returned, inside Flush it is only kept by the writer;   *)
(*  - os.Create and File.Close may fail.                                   *)
(* A record is kept as its sequence of fields together with the delimiter  *)
(* it is written with; quoting and line termination belong to the csv      *)
(* writer and are not modelled.                                            *)
(***************************************************************************)
EXTENDS Integers, Sequences, FiniteSets, TLC

\* Largest number of rows a row source yields.
MaxRows == 2

----------------------------------------------------------------------------
(* Values a driver hands to Scan through *interface{}.                     *)

NilValue == [kind |-> "nil"]
BytesValue(b) == [kind |-> "bytes", b |-> b]
StringValue(s) == [kind |-> "string", s |-> s]
IntValue(n) == [kind |-> "int", n |-> n]
TimeValue(t) == [kind |-> "time", t |-> t]

\* time.Unix(123456789, 0) in UTC, the timestamp of the test database.
Birthday == [year |-> 1973, month |-> 11, day |-> 29, hour |-> 21, min |-> 33, sec |-> 9]

GoodUUID == <<18, 52, 86, 120, 154, 188, 222, 240, 1, 35, 69, 103, 137, 171, 205, 239>>
BadUUID == <<1, 2, 3>>

Column(name, dbtype) == [name |-> name, dbtype |-> dbtype]

\* The column lists of the row sources (results of the queries being exported).
ColumnSets ==
    { << Column("name", "VARCHAR") >>,
      << Column("id", "UNIQUEIDENTIFIER"), Column("bdate", "DATETIME") >>,
      << Column("name", "VARCHAR"), Column("age", "INT") >> }

\* The values a driver yields in a column of the given declared type.
CellDomain(dbtype) ==
    CASE dbtype = "UNIQUEIDENTIFIER" -> {NilValue, BytesValue(GoodUUID), BytesValue(BadUUID)}
      [] dbtype = "VARCHAR" -> {NilValue, StringValue("Alice"), BytesValue(<<66, 111, 98>>)}
      [] dbtype = "INT" -> {NilValue, IntValue(1)}
      [] dbtype = "DATETIME" -> {NilValue, TimeValue(Birthday)}

\* The rows a source with the given columns can yield.
RowDomain(cols) ==
    { r \in [1..Len(cols) -> UNION {CellDomain(cols[i].dbtype) : i \in 1..Len(cols)}] :
        \A i \in 1..Len(cols) : r[i] \in CellDomain(cols[i].dbtype) }

----------------------------------------------------------------------------
(* Text conversions of the standard library and of google/uuid.            *)

Digit(d) == <<"0", "1", "2", "3", "4", "5", "6", "7", "8", "9">>[d + 1]

RECURSIVE Itoa(_)
Itoa(n) ==
    IF n < 0 THEN "-" \o Itoa(-n)
    ELSE IF n < 10 THEN Digit(n)
    ELSE Itoa(n \div 10) \o Digit(n % 10)

Pad2(n) == IF n < 10 THEN "0" \o Itoa(n) ELSE Itoa(n)

Pad4(n) ==
    IF n < 10 THEN "000" \o Itoa(n)
    ELSE IF n < 100 THEN "00" \o Itoa(n)
    ELSE IF n < 1000 THEN "0" \o Itoa(n)
    ELSE Itoa(n)

\* time.Time.String() of a UTC time without fractional seconds.
TimeString(t) ==
    Pad4(t.year) \o "-" \o Pad2(t.month) \o "-" \o Pad2(t.day) \o " "
        \o Pad2(t.hour) \o ":" \o Pad2(t.min) \o ":" \o Pad2(t.sec) \o " +0000 UTC"

Kitchen == "3:04PM"

\* time.Time.Format(layout): the Kitchen layout; a layout without reference
\* elements is copied verbatim.
TimeFormatted(t, layout) ==
    IF layout = Kitchen
    THEN Itoa(IF t.hour % 12 = 0 THEN 12 ELSE t.hour % 12) \o ":" \o Pad2(t.min)
            \o (IF t.hour >= 12 THEN "PM" ELSE "AM")
    ELSE layout

HexDigit(d) ==
    <<"0", "1", "2", "3", "4", "5", "6", "7", "8", "9", "a", "b", "c", "d", "e", "f">>[d + 1]

RECURSIVE HexEncode(_)
HexEncode(b) ==
    IF b = <<>> THEN ""
    ELSE HexDigit(Head(b) \div 16) \o HexDigit(Head(b) % 16) \o HexEncode(Tail(b))

\* uuid.UUID.String(): xxxxxxxx-xxxx-xxxx-xxxx-xxxxxxxxxxxx
UUIDString(b) ==
    HexEncode(SubSeq(b, 1, 4)) \o "-" \o HexEncode(SubSeq(b, 5, 6)) \o "-"
        \o HexEncode(SubSeq(b, 7, 8)) \o "-" \o HexEncode(SubSeq(b, 9, 10)) \o "-"
        \o HexEncode(SubSeq(b, 11, 16))

\* Faulty variant: the length of the slice is not checked.
UUIDFromBytes_Unchecked(b) == [err |-> "nil", s |-> HexEncode(b)]

\* uuid.FromBytes: an error unless the slice holds exactly 16 bytes.
UUIDFromBytes(b) ==
    IF Len(b) # 16 THEN [err |-> "ErrUUID", s |-> ""]
    ELSE [err |-> "nil", s |-> UUIDString(b)]

Upper == <<"A", "B", "C", "D", "E", "F", "G", "H", "I", "J", "K", "L", "M",
           "N", "O", "P", "Q", "R", "S", "T", "U", "V", "W", "X", "Y", "Z">>
Lower == <<"a", "b", "c", "d", "e", "f", "g", "h", "i", "j", "k", "l", "m",
           "n", "o", "p", "q", "r", "s", "t", "u", "v", "w", "x", "y", "z">>

\* The character of an ASCII letter code.
Chr(code) == IF code \in 65..90 THEN Upper[code - 64] ELSE Lower[code - 96]

\* string(b) for a slice of ASCII letters.
RECURSIVE BytesToString(_)
BytesToString(b) ==
    IF b = <<>> THEN "" ELSE Chr(Head(b)) \o BytesToString(Tail(b))

\* fmt.Sprintf("%v", value) for a non-nil value.
Sprintv(value) ==
    CASE value.kind = "string" -> value.s
      [] value.kind = "int" -> Itoa(value.n)
      [] value.kind = "time" -> TimeString(value.t)

----------------------------------------------------------------------------
(* The Converter and the pure parts of Write.                              *)

\* The row post-processors a caller installs ("nil": none installed).
\*   modify: the one of TestSetRowPostProcessorModifyingRows;
\*   omit:   the one of TestSetRowPostProcessorOmittingRows;
\*   filter: keeps the rows whose first field is not empty, and returns the
\*           row it was given whether it keeps it or not.
PostProcessors == {"nil", "modify", "omit", "filter"}

\* processor(row, columnTypes) -> (outputRow, processedRow)
CallPostProcessor(processor, row, cols) ==
    CASE processor = "modify" -> [writeRow |-> TRUE, row |-> <<row[1], "X", "X">>]
      [] processor = "omit" -> [writeRow |-> FALSE, row |-> <<>>]
      [] processor = "filter" -> [writeRow |-> row[1] # "", row |-> row]

NewConverter(rows) ==
    [ Headers |-> <<>>, WriteHeaders |-> TRUE, TimeFormat |-> "", Delimiter |-> 44,
      rows |-> rows, rowPostProcessor |-> "nil" ]

\* Faulty variant: Delimiter is assigned to Comma even when it is the zero rune.
WriterComma_Verbatim(delimiter) == delimiter

\* csv.NewWriter sets Comma to ','; Write overrides it unless Delimiter is '\x00'.
WriterComma(delimiter) == IF delimiter # 0 THEN delimiter ELSE 44

\* utf8.ValidRune: a code point up to U+10FFFF that is no surrogate half.
ValidRune(r) == (0 <= r /\ r < 55296) \/ (57343 < r /\ r <= 1114111)

\* csv.Writer.Write refuses NUL, '"', '\r', '\n', what is no valid rune, and
\* utf8.RuneError (U+FFFD).
ValidDelim(r) == r \notin {0, 34, 13, 10} /\ ValidRune(r) /\ r # 65533

\* Faulty variant: the last column is not named.
ColumnNames_OffByOne(cols) == [i \in 1..(Len(cols) - 1) |-> cols[i].name]

ColumnNames(cols) == [i \in 1..Len(cols) |-> cols[i].name]

\* Faulty variant: the Headers override is ignored.
ResolveHeaders_ColumnsOnly(conv, cols) == ColumnNames(cols)

ResolveHeaders(conv, cols) ==
    IF Len(conv.Headers) > 0 THEN conv.Headers ELSE ColumnNames(cols)

\* Faulty variant: WriteHeaders is not consulted.
HeaderRecords_Always(conv, cols) == << ResolveHeaders(conv, cols) >>

\* The header records Write hands to the csv writer: one, or none.
HeaderRecords(conv, cols) ==
    IF conv.WriteHeaders THEN << ResolveHeaders(conv, cols) >> ELSE << >>

\* Faulty variant: nil is formatted by Sprintf like any other value.
Stringify_NilAsText(value, column, timeFormat) ==
    IF value.kind = "bytes"
    THEN IF column.dbtype = "UNIQUEIDENTIFIER"
         THEN UUIDFromBytes(value.b)
         ELSE [err |-> "nil", s |-> BytesToString(value.b)]
    ELSE IF timeFormat # "" /\ value.kind = "time"
         THEN [err |-> "nil", s |-> TimeFormatted(value.t, timeFormat)]
         ELSE IF value.kind = "nil"
              THEN [err |-> "nil", s |-> "<nil>"]
              ELSE [err |-> "nil", s |-> Sprintv(value)]

\* The text of one scanned cell, or the error that aborts the conversion.
Stringify(value, column, timeFormat) ==
    IF value.kind = "bytes"
    THEN IF column.dbtype = "UNIQUEIDENTIFIER"
         THEN UUIDFromBytes(value.b)
         ELSE [err |-> "nil", s |-> BytesToString(value.b)]
    ELSE LET formatted ==
                 IF timeFormat # "" /\ value.kind = "time"
                 THEN StringValue(TimeFormatted(value.t, timeFormat))
                 ELSE value
         IN  IF formatted.kind = "nil"
             THEN [err |-> "nil", s |-> ""]
             ELSE [err |-> "nil", s |-> Sprintv(formatted)]

\* The cell loop of Write: the row of texts, or the first cell error.
StringifyRow(values, cols, timeFormat) ==
    LET cell(i) == Stringify(values[i], cols[i], timeFormat)
        failed == {i \in 1..Len(cols) : cell(i).err # "nil"}
    IN  IF failed # {}
        THEN [err |-> cell(CHOOSE i \in failed : \A j \in failed : i <= j).err, row |-> <<>>]
        ELSE [err |-> "nil", row |-> [i \in 1..Len(cols) |-> cell(i).s]]

\* Faulty variant: the flag is taken from the post-processor, the row is not.
PostProcess_KeepsStringified(conv, row, cols) ==
    IF conv.rowPostProcessor # "nil"
    THEN [writeRow |-> CallPostProcessor(conv.rowPostProcessor, row, cols).writeRow,
          row |-> row]
    ELSE [writeRow |-> TRUE, row |-> row]

\* writeRow and row after the optional post-processing step.
PostProcess(conv, row, cols) ==
    IF conv.rowPostProcessor # "nil"
    THEN CallPostProcessor(conv.rowPostProcessor, row, cols)
    ELSE [writeRow |-> TRUE, row |-> row]

\* Faulty variant: the terminal error is dropped.
WriteResult_Nil(rowsErr) == "nil"

\* What Write returns once the loop has ended: rows.Err().
WriteResult(rowsErr) == rowsErr

\* Faulty variant: the buffer is not written out.
Flush_Skipped(accepted, done) == { [flushed |-> done, err |-> "nil"] }

\* csvWriter.Flush() with `done` of the `accepted` records already in the
\* destination. An empty buffer is not written. Otherwise the rest is written,
\* or the destination returns an error after taking none, some or all of it,
\* and the writer keeps the error.
Flush(accepted, done) ==
    { [flushed |-> accepted, err |-> "nil"] }
        \cup (IF done < accepted
               THEN { [flushed |-> n, err |-> "ErrSink"] : n \in done..accepted }
               ELSE { })

\* Faulty variant: the close error hides the write error.
WriteFileResult_CloseFirst(writeErr, closeErr) ==
    IF closeErr # "nil" THEN closeErr ELSE writeErr

\* What WriteFile returns once the file was created.
WriteFileResult(writeErr, closeErr) ==
    IF writeErr # "nil" THEN writeErr ELSE closeErr

----------------------------------------------------------------------------
(* State.                                                                  *)

VARIABLES
    c,            \* the Converter
    pc,           \* where the caller and Write stand
    entry,        \* the terminal operation called: "none", "Write", "WriteFile"
    csvWriter,    \* the csv.Writer of Write: its Comma (0 before it exists)
    columns,      \* Write's local columns (<<>> before ColumnTypes returns)
    emitted,      \* the records handed to csvWriter.Write, in call order
    flushed,      \* how many of them have reached the destination
    sinkErr,      \* the write error the csv writer's buffer keeps ("nil": none)
    advances,     \* calls of rows.Next
    scanned,      \* the value rows rows.Scan delivered
    stringified,  \* the rows of texts built from them
    ppCalls,      \* the rows the post-processor was called with
    rowsErr,      \* the cursor's terminal error, as rows.Err() reports it
    errCalls,     \* calls of rows.Err
    result,       \* what Write returned ("pending" until it returns)
    file,         \* WriteFile's handle: "none", "open", "closed"
    closes,       \* calls of f.Close
    closeErr,     \* what f.Close returned ("pending" until it is called)
    fresult       \* what WriteFile returned ("pending" until it returns)

vars == << c, pc, entry, csvWriter, columns, emitted, flushed, sinkErr, advances, scanned,
           stringified, ppCalls, rowsErr, errCalls, result, file, closes, closeErr, fresult >>

cursor == << advances, scanned, stringified, ppCalls, rowsErr, errCalls >>
sink == << emitted, flushed, sinkErr >>
fileVars == << file, closes, closeErr, fresult >>

\* Settings a caller assigns to the public fields.
HeaderChoices == { << >>, << "Name", "Age" >> }
TimeFormats == { "", Kitchen }
Delimiters == { 0, 44, 124, 34, 65533 }

Record(kind, fields, ok) ==
    [kind |-> kind, fields |-> fields, comma |-> csvWriter.Comma, ok |-> ok]

Accepted(records) == Cardinality({k \in 1..Len(records) : records[k].ok})

Init ==
    /\ \E rows \in ColumnSets : c = NewConverter(rows)
    /\ pc = "new"
    /\ entry = "none"
    /\ csvWriter = [Comma |-> 0]
    /\ columns = << >>
    /\ emitted = << >>
    /\ flushed = 0
    /\ sinkErr = "nil"
    /\ advances = 0
    /\ scanned = << >>
    /\ stringified = << >>
    /\ ppCalls = << >>
    /\ rowsErr = "nil"
    /\ errCalls = 0
    /\ result = "pending"
    /\ file = "none"
    /\ closes = 0
    /\ closeErr = "pending"
    /\ fresult = "pending"

----------------------------------------------------------------------------
(* The caller configures the converter.                                    *)

Configure(conv) ==
    /\ pc \in {"new", "configured"}
    /\ c' = conv
    /\ pc' = "configured"
    /\ UNCHANGED << entry, csvWriter, columns, sink, cursor, result, fileVars >>

SetHeaders == \E h \in HeaderChoices : Configure([c EXCEPT !.Headers = h])

SetWriteHeaders == \E b \in BOOLEAN : Configure([c EXCEPT !.WriteHeaders = b])

SetTimeFormat == \E f \in TimeFormats : Configure([c EXCEPT !.TimeFormat = f])

SetDelimiter == \E d \in Delimiters : Configure([c EXCEPT !.Delimiter = d])

SetRowPostProcessor ==
    \E processor \in PostProcessors : Configure([c EXCEPT !.rowPostProcessor = processor])

----------------------------------------------------------------------------
(* Write.                                                                  *)

\* The caller calls Write on its own writer.
CallWrite ==
    /\ pc \in {"new", "configured"}
    /\ entry' = "Write"
    /\ pc' = "write"
    /\ UNCHANGED << c, csvWriter, columns, sink, cursor, result, fileVars >>

\* Write returns err without reaching the end of the function.
Return(err) ==
    /\ result' = err
    /\ pc' = "returned"

\* csv.NewWriter, the delimiter, rows.ColumnTypes.
WriteBegin ==
    /\ pc = "write"
    /\ csvWriter' = [Comma |-> WriterComma(c.Delimiter)]
    /\ \/ /\ columns' = c.rows
          /\ pc' = "headers"
          /\ UNCHANGED result
       \/ /\ Return("ErrColumnTypes")
          /\ UNCHANGED columns
    /\ UNCHANGED << c, entry, sink, cursor, fileVars >>

\* csvWriter.Write(record): refused when the delimiter is invalid; otherwise
\* buffered, the buffer's earlier content being written to the destination if
\* it is full; when the destination fails that write, the record is not
\* complete and the error is returned.
CsvWrite(kind, fields, whenDone) ==
    IF ValidDelim(csvWriter.Comma)
    THEN \/ /\ emitted' = Append(emitted, Record(kind, fields, TRUE))
            /\ flushed' \in {flushed, Len(emitted)}
            /\ pc' = whenDone
            /\ UNCHANGED << sinkErr, result >>
         \/ /\ emitted' = Append(emitted, Record(kind, fields, FALSE))
            /\ flushed' \in flushed..Len(emitted)
            /\ sinkErr' = "ErrSink"
            /\ Return(sinkErr')
    ELSE /\ emitted' = Append(emitted, Record(kind, fields, FALSE))
         /\ UNCHANGED << flushed, sinkErr >>
         /\ Return("ErrInvalidDelim")

\* The header block.
WriteHeaders ==
    /\ pc = "headers"
    /\ LET headers == HeaderRecords(c, columns)
       IN  IF headers # << >>
           THEN CsvWrite("header", headers[1], "loop")
           ELSE /\ pc' = "loop"
                /\ UNCHANGED << sink, result >>
    /\ UNCHANGED << c, entry, csvWriter, columns, cursor, fileVars >>

\* rows.Next(): another row, the end of the data, or an iteration error.
RowsNext ==
    /\ pc = "loop"
    /\ advances' = advances + 1
    /\ \/ /\ Len(scanned) < MaxRows
          /\ pc' = "row"
          /\ UNCHANGED rowsErr
       \/ /\ pc' = "finish"
          /\ rowsErr' \in {"nil", "ErrIter"}
    /\ UNCHANGED << c, entry, csvWriter, columns, sink, scanned, stringified, ppCalls,
                    errCalls, result, fileVars >>

\* The loop body: Scan, the cell loop, the post-processor, csvWriter.Write.
WriteRow ==
    /\ pc = "row"
    /\ \/ /\ Return("ErrScan")
          /\ UNCHANGED << sink, scanned, stringified, ppCalls >>
       \/ \E values \in RowDomain(columns) :
            LET cells == StringifyRow(values, columns, c.TimeFormat)
                out == PostProcess(c, cells.row, columns)
            IN  /\ scanned' = Append(scanned, values)
                /\ IF cells.err # "nil"
                   THEN /\ Return(cells.err)
                        /\ UNCHANGED << sink, stringified, ppCalls >>
                   ELSE /\ stringified' = Append(stringified, cells.row)
                        /\ ppCalls' = IF c.rowPostProcessor # "nil"
                                      THEN Append(ppCalls, cells.row)
                                      ELSE ppCalls
                        /\ IF out.writeRow
                           THEN CsvWrite("data", out.row, "loop")
                           ELSE /\ pc' = "loop"
                                /\ UNCHANGED << sink, result >>
    /\ UNCHANGED << c, entry, csvWriter, columns, advances, rowsErr, errCalls, fileVars >>

\* After the loop: rows.Err(), Flush, return.
WriteFinish ==
    /\ pc = "finish"
    /\ errCalls' = errCalls + 1
    /\ \E outcome \in Flush(Accepted(emitted), flushed) :
          /\ flushed' = outcome.flushed
          /\ sinkErr' = outcome.err
    /\ Return(WriteResult(rowsErr))
    /\ UNCHANGED << c, entry, csvWriter, columns, emitted, advances, scanned, stringified,
                    ppCalls, rowsErr, fileVars >>

----------------------------------------------------------------------------
(* WriteFile.                                                              *)

\* os.Create, then the call of Write on the file.
WriteFileCreate ==
    /\ pc \in {"new", "configured"}
    /\ entry' = "WriteFile"
    /\ \/ /\ file' = "open"
          /\ pc' = "write"
          /\ UNCHANGED fresult
       \/ /\ fresult' = "ErrCreate"
          /\ pc' = "done"
          /\ UNCHANGED file
    /\ UNCHANGED << c, csvWriter, columns, sink, cursor, result, closes, closeErr >>

\* Write has returned: close the file and return.
WriteFileClose ==
    /\ pc = "returned"
    /\ entry = "WriteFile"
    /\ file' = "closed"
    /\ closes' = closes + 1
    /\ closeErr' \in {"nil", "ErrClose"}
    /\ fresult' = WriteFileResult(result, closeErr')
    /\ pc' = "done"
    /\ UNCHANGED << c, entry, csvWriter, columns, sink, cursor, result >>

----------------------------------------------------------------------------

Next ==
    \/ SetHeaders
    \/ SetWriteHeaders
    \/ SetTimeFormat
    \/ SetDelimiter
    \/ SetRowPostProcessor
    \/ CallWrite
    \/ WriteBegin
    \/ WriteHeaders
    \/ RowsNext
    \/ WriteRow
    \/ WriteFinish
    \/ WriteFileCreate
    \/ WriteFileClose

Spec == Init /\ [][Next]_vars

----------------------------------------------------------------------------
(* Vocabulary of the properties.                                           *)

Installed == c.rowPostProcessor # "nil"

\* Write has returned (WriteFile may still have to close the file).
Returned == result # "pending"

\* Write is past rows.ColumnTypes and past its header block.
HeaderStepDone == columns # << >> /\ pc # "headers"

\* rows.Next() has returned false.
LoopEnded ==
    /\ pc \in {"finish", "returned", "done"}
    /\ advances = Len(scanned) + 1
    /\ result # "ErrScan"

IsHeader(e) == e.kind = "header"
IsData(e) == e.kind = "data"

HeaderRows == SelectSeq(emitted, IsHeader)
DataRows == SelectSeq(emitted, IsData)

Fields(records) == [k \in 1..Len(records) |-> records[k].fields]

\* The delimiter the configuration asks for.
ConfiguredComma == IF c.Delimiter = 0 THEN 44 ELSE c.Delimiter

\* The header the configuration asks for.
ConfiguredHeader ==
    IF c.Headers # << >> THEN c.Headers ELSE [i \in 1..Len(c.rows) |-> c.rows[i].name]

\* The rows the installed post-processor returns with a true flag, in order.
RECURSIVE KeptRows(_)
KeptRows(rws) ==
    IF rws = << >> THEN << >>
    ELSE LET out == CallPostProcessor(c.rowPostProcessor, Head(rws), c.rows)
         IN  (IF out.writeRow THEN << out.row >> ELSE << >>) \o KeptRows(Tail(rws))

\* A byte slice in a unique-identifier column that is no 16-byte identifier.
Undecodable(values) ==
    \E i \in 1..Len(values) :
        /\ values[i].kind = "bytes"
        /\ c.rows[i].dbtype = "UNIQUEIDENTIFIER"
        /\ Len(values[i].b) # 16

HasNil(values) == \E i \in 1..Len(values) : values[i].kind = "nil"

----------------------------------------------------------------------------
(* C1. With WriteHeaders enabled, once Write is past its header block      *)
(* exactly one header row has been emitted, as the first record, and its   *)
(* content is the Headers override when that is non-empty and the column   *)
(* names in column order otherwise; until then nothing was emitted and the *)
(* source was not advanced. This includes sources that yield no row.       *)
C1_OneHeaderFirst ==
    c.WriteHeaders =>
        /\ HeaderStepDone =>
              /\ Len(HeaderRows) = 1
              /\ IsHeader(emitted[1])
              /\ emitted[1].fields = ConfiguredHeader
        /\ ~HeaderStepDone => (emitted = << >> /\ advances = 0)
        /\ advances > 0 => (emitted # << >> /\ IsHeader(emitted[1]))

C1_Witness_EmptySource ==
    /\ c.WriteHeaders /\ c.Headers # << >>
    /\ result = "nil" /\ scanned = << >> /\ advances = 1
    /\ Fields(emitted) = << c.Headers >>

----------------------------------------------------------------------------
(* C2. With a post-processor installed it is called exactly once per       *)
(* stringified row, in source order; the data rows emitted are exactly the *)
(* rows it returned with a true flag, in source order (the returned row,   *)
(* not the stringified one); one that always returns false leaves no data  *)
(* row and the header row as configured.                                   *)
C2_PostProcessorDecides ==
    Installed =>
        /\ ppCalls = stringified
        /\ Fields(DataRows) = KeptRows(stringified)
        /\ c.rowPostProcessor = "omit" =>
              /\ DataRows = << >>
              /\ (c.WriteHeaders /\ HeaderStepDone) => Fields(emitted) = << ConfiguredHeader >>

C2_Witness_FilteredAndRewritten ==
    /\ result = "nil"
    /\ Len(stringified) = 2
    /\ \/ c.rowPostProcessor = "filter" /\ Len(DataRows) = 1
       \/ c.rowPostProcessor = "modify" /\ Len(DataRows) = 2
             /\ DataRows[1].fields # stringified[1]

----------------------------------------------------------------------------
(* C3. With WriteHeaders disabled, no post-processor and no error, the     *)
(* output is exactly the data rows: no header row, as many rows as the     *)
(* source yielded, each the text of its source row, in source order; they  *)
(* are all in the destination unless the destination failed the flush.     *)
C3_DataRowsOnly ==
    (~c.WriteHeaders /\ ~Installed /\ result = "nil") =>
        /\ HeaderRows = << >>
        /\ Len(emitted) = Len(scanned)
        /\ Len(scanned) = advances - 1
        /\ \A k \in 1..Len(emitted) :
              /\ emitted[k].ok
              /\ emitted[k].fields = StringifyRow(scanned[k], c.rows, c.TimeFormat).row
        /\ sinkErr = "nil" => flushed = Len(emitted)

C3_Witness_TwoRows ==
    /\ ~c.WriteHeaders /\ ~Installed /\ result = "nil"
    /\ Len(scanned) = 2 /\ scanned[1] # scanned[2]
    /\ Len(emitted) = 2 /\ flushed = 2

----------------------------------------------------------------------------
(* C4. rows.Err() is consulted only once the loop has ended; when Next     *)
(* has returned false, Write flushes, so that every emitted record (the    *)
(* header included) is in the destination, and returns the terminal error, *)
(* which is no error when the source has none. The destination part is     *)
(* stated for a destination that has failed no write.                      *)
C4_TerminalErrorAfterFlush ==
    /\ errCalls > 0 => (errCalls = 1 /\ LoopEnded /\ Returned)
    /\ (LoopEnded /\ Returned) =>
          /\ errCalls = 1
          /\ result = rowsErr
          /\ \A k \in 1..Len(emitted) : emitted[k].ok
          /\ sinkErr = "nil" => flushed = Len(emitted)

C4_Witness_IterationError ==
    /\ LoopEnded /\ Returned
    /\ rowsErr = "ErrIter" /\ result = "ErrIter"
    /\ c.WriteHeaders /\ Len(DataRows) = 1 /\ sinkErr = "nil" /\ flushed = 2

----------------------------------------------------------------------------
(* C5. When rows.Scan fails, Write returns the scan error at once, without *)
(* another Next or Scan, and the records already written are in the        *)
(* destination when Write returns (stated here for a destination that has  *)
(* failed no write).                                                       *)
C5_ScanErrorLeavesRowsInDestination ==
    (result = "ErrScan" /\ sinkErr = "nil") =>
        /\ advances = Len(scanned) + 1
        /\ errCalls = 0
        /\ flushed = Accepted(emitted)

----------------------------------------------------------------------------
(* C6. A byte slice in a unique-identifier column that does not decode     *)
(* aborts the conversion with the decoding error: the row holding it is    *)
(* the last one read, no record is emitted for it, the post-processor is   *)
(* not called for it, and no later row is read or emitted.                 *)
C6_UndecodableIdentifierAborts ==
    \A k \in 1..Len(scanned) :
        Undecodable(scanned[k]) =>
            /\ k = Len(scanned)
            /\ result = "ErrUUID"
            /\ pc \in {"returned", "done"}
            /\ advances = k
            /\ Len(stringified) = k - 1
            /\ Installed => ppCalls = stringified
            /\ Len(DataRows) <= k - 1
            /\ ~Installed => Len(DataRows) = k - 1

C6_Witness_SecondRowUndecodable ==
    /\ result = "ErrUUID"
    /\ Len(scanned) = 2 /\ Undecodable(scanned[2])
    /\ Len(DataRows) = 1

----------------------------------------------------------------------------
(* C7. WriteFile: when os.Create fails the creation error is returned and  *)
(* Write never starts; otherwise the file is closed exactly once before    *)
(* WriteFile returns, the result is Write's error whenever Write failed,   *)
(* and the close error is returned only when Write succeeded.              *)
C7_WriteFileClosesAndPrefersWriteError ==
    entry = "WriteFile" =>
        /\ closes <= 1
        /\ fresult = "pending" <=> pc # "done"
        /\ pc # "done" => (closes = 0 /\ file = "open")
        /\ (pc = "done" /\ file = "none") =>
              /\ fresult = "ErrCreate"
              /\ ~Returned /\ csvWriter.Comma = 0
              /\ advances = 0 /\ emitted = << >> /\ closes = 0 /\ closeErr = "pending"
        /\ (pc = "done" /\ file # "none") =>
              /\ file = "closed" /\ closes = 1
              /\ Returned
              /\ result # "nil" => fresult = result
              /\ result = "nil" => fresult = closeErr
              /\ fresult = "ErrClose" => result = "nil"

C7_Witness_WriteAndCloseFail ==
    /\ entry = "WriteFile" /\ pc = "done"
    /\ file = "closed" /\ closes = 1
    /\ result = "ErrIter" /\ closeErr = "ErrClose" /\ fresult = "ErrIter"

----------------------------------------------------------------------------
(* C8. A nil cell becomes the empty text whatever the declared type of its *)
(* column and whatever TimeFormat is, and does not make the conversion     *)
(* fail; the other cells of its row keep their own text.                   *)
C8_NilIsEmptyText ==
    \A k \in 1..Len(scanned) :
        HasNil(scanned[k]) =>
            /\ ~Undecodable(scanned[k]) => k <= Len(stringified)
            /\ k <= Len(stringified) =>
                  \A i \in 1..Len(scanned[k]) :
                      IF scanned[k][i].kind = "nil"
                      THEN stringified[k][i] = ""
                      ELSE stringified[k][i] =
                               Stringify(scanned[k][i], c.rows[i], c.TimeFormat).s

C8_Witness_NilInIdentifierColumn ==
    /\ c.TimeFormat # ""
    /\ Len(stringified) = 1
    /\ c.rows[1].dbtype = "UNIQUEIDENTIFIER"
    /\ scanned[1][1].kind = "nil" /\ scanned[1][2].kind = "time"
    /\ stringified[1] = << "", "9:33PM" >>

----------------------------------------------------------------------------
(* C9. A converter from NewConverter has the comma as delimiter; Write     *)
(* uses the comma when Delimiter is the zero rune and Delimiter otherwise, *)
(* for every record of the call, the header included.                      *)
C9_DelimiterFallback ==
    /\ pc = "new" => c.Delimiter = 44
    /\ pc \in {"headers", "loop", "row", "finish", "returned"} =>
          csvWriter.Comma = ConfiguredComma
    /\ \A k \in 1..Len(emitted) : emitted[k].comma = ConfiguredComma

C9_Witness_UnsetDelimiter ==
    /\ c.Delimiter = 0
    /\ result = "nil"
    /\ Len(HeaderRows) = 1 /\ Len(DataRows) = 1
    /\ \A k \in 1..Len(emitted) : emitted[k].comma = 44

----------------------------------------------------------------------------
(* C10, as stated. Whenever a header row is emitted and no post-processor  *)
(* is installed, every emitted data row has as many fields as the header   *)
(* row, whatever the configuration, a Headers override included.           *)
C10_HeaderWidthAlways ==
    (emitted # << >> /\ IsHeader(emitted[1]) /\ ~Installed) =>
        \A k \in 1..Len(DataRows) :
            Len(DataRows[k].fields) = Len(emitted[1].fields)

(* C10, amended. The same, for the configurations without a Headers        *)
(* override or with one that has as many entries as the source has         *)
(* columns; the common width is the column count.                          *)
C10_HeaderWidthWhenOverrideFits ==
    (/\ emitted # << >> /\ IsHeader(emitted[1]) /\ ~Installed
     /\ (c.Headers = << >> \/ Len(c.Headers) = Len(c.rows))) =>
        /\ Len(emitted[1].fields) = Len(c.rows)
        /\ \A k \in 1..Len(DataRows) :
              Len(DataRows[k].fields) = Len(emitted[1].fields)

C10_Witness_FittingOverride ==
    /\ ~Installed /\ result = "nil"
    /\ c.Headers # << >> /\ Len(c.Headers) = Len(c.rows)
    /\ Len(HeaderRows) = 1 /\ Len(DataRows) = 2

====
